---------------------------- MODULE Spec2Model ----------------------------
(***************************************************************************)
(* Model of the Common webhook client (packages/client-common):            *)
(*   - CommonClient._validateWebhook   schema check + signature verifier   *)
(*   - CommonClient._handleCommonEvent overflow fetch + request boundary   *)
(*   - MessageManager.handleMessage    record / decide / generate /        *)
(*                                     publish / record reply / effects    *)
(*                                                                         *)
(* JavaScript strings are sequences of one-character strings.  Opaque      *)
(* texts (a wire body, a base64 signature, a timestamp) are tokens.        *)
(***************************************************************************)
EXTENDS Integers, Sequences, FiniteSets, TLC

VARIABLES
    settings,   \* the process configuration: runtime settings and process.env
    config,     \* this.config: the validated CommonEnvSchema value
    reqs,       \* one record per inbound POST (its position and locals)
    store,      \* runtime.messageManager: the conversation-memory table
    comments    \* comments created on Common through createComment

vars == <<settings, config, reqs, store, comments>>

-----------------------------------------------------------------------------
(* Bounds                                                                  *)

\* number of inbound POSTs, all of which may be in flight together
MaxReq == 2

Reqs == 1..MaxReq

-----------------------------------------------------------------------------
(* Strings                                                                 *)

Digit(d) ==
    CASE d = 0 -> "0" [] d = 1 -> "1" [] d = 2 -> "2" [] d = 3 -> "3"
      [] d = 4 -> "4" [] d = 5 -> "5" [] d = 6 -> "6" [] d = 7 -> "7"
      [] d = 8 -> "8" [] d = 9 -> "9"

RECURSIVE NatToString(_)
NatToString(n) ==
    IF n < 10 THEN <<Digit(n)>>
    ELSE NatToString(n \div 10) \o <<Digit(n % 10)>>

\* Number.prototype.toString / `${n}` for an integer
NumToString(n) == IF n < 0 THEN <<"-">> \o NatToString(-n) ELSE NatToString(n)

\* String.prototype.includes
Includes(text, pat) ==
    \E i \in 1..(Len(text) + 1) :
        /\ i + Len(pat) - 1 <= Len(text)
        /\ SubSeq(text, i, i + Len(pat) - 1) = pat

\* String.prototype.substring(2)
Substring2(s) == SubSeq(s, 3, Len(s))

\* `${a}-${b}-${c}`
Dash3(a, b, c) == a \o <<"-">> \o b \o <<"-">> \o c

-----------------------------------------------------------------------------
(* Inbound bodies                                                          *)

\* The agent's own Common user, as getUser() returns it.  start() hands the
\* whole object to MessageManager, which keeps it as commonUserId.
CommonUser == [id |-> 99, profile_name |-> "eliza"]

commonUserId == CommonUser

\* runtime.agentId, an opaque UUID string
agentId == <<"AGENT">>

\* Object.prototype.toString of a plain object, character by character
ObjectText ==
    <<"[", "o", "b", "j", "e", "c", "t", " ", "O", "b", "j", "e", "c", "t", "]">>

\* this.commonUserId.toString()
UserToString(user) == ObjectText

Hi == <<"h", "i">>
Mention == <<"h", "i", " ", "@", "9", "9">>
Quoted == <<"s", "e", "e", " ">> \o ObjectText

\* The JSON texts that reach the server, named by a token each.
Bodies ==
    {"thread7", "comment8", "self100", "selfQuoted", "plain7", "overflowB",
     "tenantC", "tenantProto", "tenantInherit", "emptyUrl", "nullUrl",
     "threadC5", "comment0", "badSchema", "badType", "longCommunity",
     "noTitle", "toStringKey"}

\* A JSON value: its type, the value and, for a string given as a token,
\* its length.  A member that may be missing is <<>> when missing and
\* <<value>> when present.
Str(v, n) == <<[t |-> "string", v |-> v, len |-> n]>>
Num(v) == <<[t |-> "number", v |-> v, len |-> 0]>>
Null == <<[t |-> "null", v |-> 0, len |-> 0]>>

BaseObject ==
    [community_id |-> Str("A", 1), profile_name |-> Str("tim", 3),
     profile_url |-> Str("purl", 4), thread_title |-> Str("title", 5),
     object_url |-> Str("url", 3),
     object_summary |-> Str(Mention, Len(Mention)), content_url |-> <<>>,
     content_type |-> Str("thread", 6), thread_id |-> Num(7),
     comment_id |-> <<>>, author_user_id |-> Num(42), toString |-> <<>>]

Comment(id) == [BaseObject EXCEPT !.content_type = Str("comment", 7),
                                  !.comment_id = Num(id)]

\* JSON.parse of the wire text, as express.json() leaves it in req.body.
\* toString is an own member of that name, which the schema does not know.
ParseJSON(wire) ==
    CASE wire = "thread7" -> BaseObject
      [] wire = "comment8" ->
            [Comment(8) EXCEPT !.object_summary = Str(Quoted, Len(Quoted))]
      [] wire = "self100" ->
            [Comment(100) EXCEPT !.author_user_id = Num(CommonUser.id),
                                 !.profile_name = Str("eliza", 5)]
      [] wire = "selfQuoted" ->
            [Comment(101) EXCEPT !.author_user_id = Num(CommonUser.id),
                                 !.profile_name = Str("eliza", 5),
                                 !.object_summary = Str(Quoted, Len(Quoted))]
      [] wire = "plain7" -> [Comment(7) EXCEPT !.object_summary = Str(Hi, Len(Hi))]
      [] wire = "overflowB" ->
            [BaseObject EXCEPT !.community_id = Str("B", 1), !.thread_id = Num(5),
                               !.object_summary = Str(Hi, Len(Hi)),
                               !.content_url = Str("r2", 2)]
      [] wire = "tenantC" -> [BaseObject EXCEPT !.community_id = Str("C", 1)]
      [] wire = "tenantProto" ->
            [BaseObject EXCEPT !.community_id = Str("constructor", 11)]
      [] wire = "tenantInherit" ->
            [BaseObject EXCEPT !.community_id = Str("__proto__", 9)]
      [] wire = "emptyUrl" ->
            [BaseObject EXCEPT !.thread_id = Num(6), !.content_url = Str("", 0)]
      [] wire = "nullUrl" ->
            [BaseObject EXCEPT !.thread_id = Num(4), !.content_url = Null]
      [] wire = "threadC5" ->
            [BaseObject EXCEPT !.comment_id = Num(5),
                               !.object_summary = Str(Quoted, Len(Quoted))]
      [] wire = "comment0" ->
            [Comment(0) EXCEPT !.object_summary = Str(Quoted, Len(Quoted))]
      [] wire = "badSchema" -> [BaseObject EXCEPT !.thread_id = <<>>]
      [] wire = "badType" -> [BaseObject EXCEPT !.content_type = Str("reply", 5)]
      [] wire = "longCommunity" ->
            [BaseObject EXCEPT !.community_id = Str("A256", 256)]
      [] wire = "noTitle" -> [BaseObject EXCEPT !.thread_title = <<>>]
      [] wire = "toStringKey" -> [BaseObject EXCEPT !.toString = Str("x", 1)]

\* A template literal's conversion of req.body: toString is looked up on the
\* object and called when it is callable, else valueOf, which gives back the
\* object, and the conversion throws.  No JSON value is callable.
ToStringThrows == "TypeError"

ObjectToString(obj) ==
    IF obj.toString # <<>> THEN ToStringThrows ELSE "[object Object]"

IsString(f) == Len(f) = 1 /\ f[1].t = "string"
IsNumber(f) == Len(f) = 1 /\ f[1].t = "number"
IsNull(f) == Len(f) = 1 /\ f[1].t = "null"

\* AgentMentionedSchema.safeParse(req.body).success
SchemaOK(obj) ==
    /\ IsString(obj.community_id) /\ obj.community_id[1].len <= 255
    /\ IsString(obj.profile_name) /\ obj.profile_name[1].len <= 255
    /\ IsString(obj.profile_url)
    /\ IsString(obj.thread_title)
    /\ IsString(obj.object_url)
    /\ IsString(obj.object_summary)
    /\ obj.content_url = <<>> \/ IsNull(obj.content_url) \/ IsString(obj.content_url)
    /\ IsString(obj.content_type) /\ obj.content_type[1].v \in {"thread", "comment"}
    /\ IsNumber(obj.thread_id)
    /\ obj.comment_id = <<>> \/ IsNumber(obj.comment_id)
    /\ IsNumber(obj.author_user_id)

StrOf(f, none) == IF IsString(f) THEN f[1].v ELSE none
NumOf(f) == IF IsNumber(f) THEN <<f[1].v>> ELSE <<>>

\* AgentMentionedSchema.safeParse(req.body).data: the members the schema
\* names, unknown ones stripped.  thread_id, comment_id and content_url stay
\* <<>> or <<value>>; a null content_url is <<>> like a missing one.
SafeParseData(obj) ==
    [community_id |-> StrOf(obj.community_id, ""),
     profile_name |-> StrOf(obj.profile_name, ""),
     profile_url |-> StrOf(obj.profile_url, ""),
     thread_title |-> StrOf(obj.thread_title, ""),
     object_url |-> StrOf(obj.object_url, ""),
     object_summary |-> StrOf(obj.object_summary, <<>>),
     content_url |-> IF IsString(obj.content_url)
                     THEN <<obj.content_url[1].v>> ELSE <<>>,
     content_type |-> StrOf(obj.content_type, ""),
     thread_id |-> NumOf(obj.thread_id),
     comment_id |-> NumOf(obj.comment_id),
     author_user_id |-> IF IsNumber(obj.author_user_id)
                        THEN obj.author_user_id[1].v ELSE 0]

\* the validated body of a wire text
\* express.json() on every body the model sends
RawBody == [wire \in Bodies |-> ParseJSON(wire)]

\* req.body as line 135 leaves it, for every body the model sends
ParsedBody == [wire \in Bodies |-> SafeParseData(RawBody[wire])]

Body(wire) == ParsedBody[wire]

\* what contentResponse.text() may give
FetchedTexts == {Hi, Quoted}

-----------------------------------------------------------------------------
(* Configuration                                                           *)

\* this.config as CommonEnvSchema types it: COMMON_WEBHOOK_SIGNING_KEYS is
\* optional, so it is unset or a record from community id to secret
NoKeys == [enabled |-> FALSE, keys |-> <<>>, failed |-> FALSE]

\* CommonEnvSchema.parse threw: there is no configuration and no client
ConfigError == [enabled |-> FALSE, keys |-> <<>>, failed |-> TRUE]

\* A JSON text is the sequence of its lexemes: a punctuator, white space,
\* a string literal (v is its value), a number, another literal, or
\* something that is no lexeme of JSON.
Lx(k, v) == [k |-> k, v |-> v]
LBrace == Lx("{", "")
RBrace == Lx("}", "")
Colon == Lx(":", "")
Comma == Lx(",", "")
Ws == Lx("ws", " ")
LStr(v) == Lx("str", v)
LNum(v) == Lx("num", v)
LBracket == Lx("[", "")
RBracket == Lx("]", "")

\* '{"A":"kA","B":"kB"}', as it stands in the process configuration
KeysABText ==
    <<LBrace, LStr("A"), Colon, LStr("kA"), Comma,
      LStr("B"), Colon, LStr("kB"), RBrace>>

\* '{ "C": "kC" }'
KeysCText ==
    <<LBrace, Ws, LStr("C"), Colon, Ws, LStr("kC"), Ws, RBrace>>

\* '{"A":1}', a JSON object that is no record of strings
KeysNumText == <<LBrace, LStr("A"), Colon, LNum("1"), RBrace>>

\* '{"A":[1],"A":"kA","B":"kB"}', in which a name comes twice
KeysTwiceText ==
    <<LBrace, LStr("A"), Colon, LBracket, LNum("1"), RBracket, Comma,
      LStr("A"), Colon, LStr("kA"), Comma, LStr("B"), Colon, LStr("kB"), RBrace>>

\* '{', which is no JSON
BrokenText == <<LBrace>>

\* a decimal text for the port
PortText == <<"3", "0", "0", "1">>

\* the names validateCommonConfig reads from the process configuration
LoaderNames ==
    {"COMMON_API_KEY", "COMMON_API_URL", "COMMON_WEBHOOK_PORT",
     "COMMON_WEBHOOK_SIGNING_KEY", "COMMON_WALLET_ADDRESS"}

\* the names CommonEnvSchema declares
SchemaNames ==
    {"COMMON_API_KEY", "COMMON_WALLET_ADDRESS", "COMMON_API_URL",
     "COMMON_WEBHOOK_PORT", "COMMON_WEBHOOK_SIGNING_KEYS"}

\* A process configuration: each name unset (<<>>) or set to a text.  The
\* key map is unset or set; everything else the client needs is set.
SettingsWith(keysText) ==
    [n \in LoaderNames \cup SchemaNames |->
        IF n = "COMMON_WEBHOOK_SIGNING_KEYS" THEN keysText
        ELSE IF n = "COMMON_WEBHOOK_SIGNING_KEY" THEN <<>>
        ELSE IF n = "COMMON_WEBHOOK_PORT" THEN <<PortText>>
        ELSE <<"set">>]

\* as SettingsWith(<<>>), with one name set otherwise: left unset (<<>>) or
\* set to the given text
SettingsBut(name, value) == [SettingsWith(<<>>) EXCEPT ![name] = value]

ProcessSettings ==
    {SettingsWith(<<>>), SettingsWith(<<KeysABText>>),
     SettingsWith(<<KeysCText>>), SettingsWith(<<KeysNumText>>),
     SettingsWith(<<KeysTwiceText>>),
     SettingsWith(<<BrokenText>>),
     SettingsBut("COMMON_API_KEY", <<>>),
     SettingsBut("COMMON_WALLET_ADDRESS", <<"">>),
     SettingsBut("COMMON_WEBHOOK_PORT", <<>>),
     SettingsBut("COMMON_WEBHOOK_PORT", <<<<"a", "b", "c">>>>)}

\* JSON.parse skips white space between lexemes
NotWs(lx) == lx.k # "ws"

\* the kind of the lexeme at position i, "" past the end of the text
KindAt(lxs, i) == IF i \in 1..Len(lxs) THEN lxs[i].k ELSE ""

\* JSON.parse reading one value that starts at position i: the position
\* after the value, 0 when there is no value there
RECURSIVE SkipValue(_, _)
RECURSIVE SkipMembers(_, _)
RECURSIVE SkipElements(_, _)
SkipValue(lxs, i) ==
    CASE KindAt(lxs, i) \in {"str", "num", "lit"} -> i + 1
      [] KindAt(lxs, i) = "{" ->
            IF KindAt(lxs, i + 1) = "}" THEN i + 2 ELSE SkipMembers(lxs, i + 1)
      [] KindAt(lxs, i) = "[" ->
            IF KindAt(lxs, i + 1) = "]" THEN i + 2 ELSE SkipElements(lxs, i + 1)
      [] OTHER -> 0

\* the members of an object from position i up to its "}"
SkipMembers(lxs, i) ==
    IF KindAt(lxs, i) = "str" /\ KindAt(lxs, i + 1) = ":"
    THEN LET j == SkipValue(lxs, i + 2)
         IN  IF j = 0 THEN 0
             ELSE IF KindAt(lxs, j) = "}" THEN j + 1
             ELSE IF KindAt(lxs, j) = "," THEN SkipMembers(lxs, j + 1)
             ELSE 0
    ELSE 0

\* the elements of an array from position i up to its "]"
SkipElements(lxs, i) ==
    LET j == SkipValue(lxs, i)
    IN  IF j = 0 THEN 0
        ELSE IF KindAt(lxs, j) = "]" THEN j + 1
        ELSE IF KindAt(lxs, j) = "," THEN SkipElements(lxs, j + 1)
        ELSE 0

\* the members of the outermost object in the order of the text, from
\* position i: each name with the position of its value and whether the
\* value is a string; ok is FALSE when the text is no JSON
RECURSIVE TopMembers(_, _, _)
TopMembers(lxs, i, seen) ==
    IF KindAt(lxs, i) = "str" /\ KindAt(lxs, i + 1) = ":"
    THEN LET j == SkipValue(lxs, i + 2)
             member == [name |-> lxs[i].v, at |-> i + 2,
                        string |-> KindAt(lxs, i + 2) = "str"]
         IN  IF j = 0 THEN [ok |-> FALSE, members |-> <<>>]
             ELSE IF KindAt(lxs, j) = "}" /\ j = Len(lxs)
                  THEN [ok |-> TRUE, members |-> Append(seen, member)]
             ELSE IF KindAt(lxs, j) = ","
                  THEN TopMembers(lxs, j + 1, Append(seen, member))
             ELSE [ok |-> FALSE, members |-> <<>>]
    ELSE [ok |-> FALSE, members |-> <<>>]

\* stringToJSONSchema piped into z.record(z.string(), z.string()):
\* JSON.parse gives an object that has each name once, with the value the
\* text gives it last, and the record wants every one of these values to be
\* a string.  The map has them all but for the name __proto__, which zod
\* leaves out of its output.  Any other text (no JSON, JSON that is no
\* object, an object with a value that is no string) is an issue.
ParseKeyMap(text) ==
    LET lxs == SelectSeq(text, NotWs)
        read == IF KindAt(lxs, 1) = "{" /\ KindAt(lxs, 2) = "}" /\ Len(lxs) = 2
                THEN [ok |-> TRUE, members |-> <<>>]
                ELSE IF KindAt(lxs, 1) = "{" THEN TopMembers(lxs, 2, <<>>)
                ELSE [ok |-> FALSE, members |-> <<>>]
        members == read.members
        Last(name) ==
            CHOOSE m \in DOMAIN members :
                /\ members[m].name = name
                /\ \A o \in DOMAIN members : members[o].name = name => o <= m
        names == {members[m].name : m \in DOMAIN members}
    IN  IF read.ok /\ \A name \in names : members[Last(name)].string
        THEN [ok |-> TRUE,
              map |-> [name \in names \ {"__proto__"} |->
                          lxs[members[Last(name)].at].v]]
        ELSE [ok |-> FALSE, map |-> <<>>]

DecimalDigits == {"0", "1", "2", "3", "4", "5", "6", "7", "8", "9"}
HexDigits ==
    DecimalDigits \cup {"a", "b", "c", "d", "e", "f", "A", "B", "C", "D", "E", "F"}

\* StrWhiteSpaceChar: space, tab, line feed, carriage return and form feed
\* stand for themselves; VT is the vertical tab, NBSP the no-break space,
\* BOM U+FEFF, LS and PS the line and paragraph separators, Zs any other
\* space separator of Unicode
WhiteSpace ==
    {" ", "\t", "\n", "\r", "\f", "VT", "NBSP", "BOM", "LS", "PS", "Zs"}
Signs == {"+", "-"}

\* every character of the text is of the set; the empty text too
AllOf(text, set) == \A i \in 1..Len(text) : text[i] \in set

\* the text after its sign, when it has one
Unsigned(text) ==
    IF text # <<>> /\ text[1] \in Signs THEN Tail(text) ELSE text

\* String.prototype.trim, as StringToNumber applies it
Trim(text) ==
    LET kept == {i \in 1..Len(text) : text[i] \notin WhiteSpace}
    IN  IF kept = {} THEN <<>>
        ELSE SubSeq(text, CHOOSE i \in kept : \A j \in kept : i <= j,
                          CHOOSE i \in kept : \A j \in kept : j <= i)

\* digits with at most one point among them
IsMantissa(text) ==
    \/ text # <<>> /\ AllOf(text, DecimalDigits)
    \/ \E i \in 1..Len(text) :
          /\ text[i] = "." /\ Len(text) >= 2
          /\ AllOf(SubSeq(text, 1, i - 1), DecimalDigits)
          /\ AllOf(SubSeq(text, i + 1, Len(text)), DecimalDigits)

\* StrUnsignedDecimalLiteral
IsUnsignedDecimal(text) ==
    \/ text = <<"I", "n", "f", "i", "n", "i", "t", "y">>
    \/ IsMantissa(text)
    \/ \E i \in 1..Len(text) :
          /\ text[i] \in {"e", "E"}
          /\ IsMantissa(SubSeq(text, 1, i - 1))
          /\ LET exponent == Unsigned(SubSeq(text, i + 1, Len(text)))
             IN  exponent # <<>> /\ AllOf(exponent, DecimalDigits)

\* 0x, 0o and 0b literals, which take no sign
IsRadixLiteral(text) ==
    /\ Len(text) >= 3
    /\ text[1] = "0"
    /\ LET rest == SubSeq(text, 3, Len(text))
       IN  \/ text[2] \in {"x", "X"} /\ AllOf(rest, HexDigits)
           \/ text[2] \in {"o", "O"} /\ AllOf(rest, {"0", "1", "2", "3", "4", "5", "6", "7"})
           \/ text[2] \in {"b", "B"} /\ AllOf(rest, {"0", "1"})

\* z.coerce.number(): Number(text) is a number and not NaN.  Blank text is 0.
CoercesToNumber(text) ==
    LET t == Trim(text)
    IN  \/ t = <<>>
        \/ IsUnsignedDecimal(Unsigned(t))
        \/ IsRadixLiteral(t)

\* the members CommonEnvSchema requires (min(1))
RequiredNames == {"COMMON_API_KEY", "COMMON_WALLET_ADDRESS"}

\* CommonEnvSchema.parse(obj), as far as the verifier reads the result:
\* members the object does not have are undefined.  A required member that
\* is undefined or empty, a port that is no number and a key map that is no
\* JSON record of strings are issues, on which parse throws.
CommonEnvSchemaParse(obj) ==
    LET Unset(n) == n \notin DOMAIN obj \/ obj[n] = <<>>
        Missing(n) == Unset(n) \/ obj[n][1] = ""
        port == "COMMON_WEBHOOK_PORT"
        keys == "COMMON_WEBHOOK_SIGNING_KEYS"
    IN  IF \E n \in RequiredNames : Missing(n) THEN ConfigError
        ELSE IF ~Unset(port) /\ ~CoercesToNumber(obj[port][1]) THEN ConfigError
        ELSE IF Unset(keys) THEN NoKeys
        ELSE LET parsed == ParseKeyMap(obj[keys][1])
             IN  IF parsed.ok
                 THEN [enabled |-> TRUE, keys |-> parsed.map, failed |-> FALSE]
                 ELSE ConfigError

\* validateCommonConfig, in the version that parses with CommonEnvSchema and
\* reads the wallet address the constructor uses: the object it builds has
\* the members it reads
ValidateCommonConfig(given) ==
    CommonEnvSchemaParse([n \in LoaderNames |-> given[n]])

\* the names every plain object inherits from Object.prototype
PrototypeKeys ==
    {"constructor", "toString", "valueOf", "hasOwnProperty", "isPrototypeOf",
     "propertyIsEnumerable", "toLocaleString", "__proto__",
     "__defineGetter__", "__defineSetter__", "__lookupGetter__",
     "__lookupSetter__"}

\* an inherited member: a function or Object.prototype itself, truthy and
\* no string
InheritedFn == "[Function]"

\* this.config.COMMON_WEBHOOK_SIGNING_KEYS[community_id]; "" is falsy like
\* undefined
KeyLookup(keys, community_id) ==
    IF community_id \in DOMAIN keys THEN keys[community_id]
    ELSE IF community_id \in PrototypeKeys THEN InheritedFn
    ELSE ""

-----------------------------------------------------------------------------
(* Signature header                                                        *)

\* the freshness window of _validateWebhook, in milliseconds
ReplayWindow == 60000

\* a reference instant, in unix milliseconds
T0 == 1000000

\* four digits, which read as unix milliseconds are two seconds after the
\* epoch
YearDigits == 2024

\* A timestamp text: an ISO-8601 rendering of instant t, or the decimal
\* digits of t (unix milliseconds).
TsTokens ==
    {[fmt |-> "iso", t |-> T0 - ReplayWindow],
     [fmt |-> "iso", t |-> T0 - ReplayWindow + 1],
     [fmt |-> "iso", t |-> T0],
     [fmt |-> "iso", t |-> T0 + ReplayWindow],
     [fmt |-> "ms", t |-> T0],
     [fmt |-> "ms", t |-> YearDigits]}

\* sig.split(",")[1].substring(2) of a header 't=<ts>,<pre><tok>': the
\* segment ends at the first comma of what follows, so the token belongs to
\* it only when the prefix has none.  What is left is the prefix without its
\* first two characters and then the token, without the characters the cut
\* took from it when the prefix is shorter than two.
SegText(pre, tok) ==
    LET commas == {i \in 1..Len(pre) : pre[i] = ","}
        seg == IF commas = {} THEN pre
               ELSE SubSeq(pre, 1, (CHOOSE i \in commas : \A j \in commas : i <= j) - 1)
    IN  [lead |-> Substring2(seg),
         cut |-> IF commas = {} /\ Len(pre) < 2 THEN 2 - Len(pre) ELSE 0,
         tok |-> tok,
         has |-> commas = {}]

\* a text that is a token and nothing else, as digest("base64") gives it
WholeText(tok) == [lead |-> <<>>, cut |-> 0, tok |-> tok, has |-> TRUE]

NoTs == [fmt |-> "iso", t |-> 0]
NoMsg == [ts |-> NoTs, body |-> ""]

\* createHmac("sha256", key).update(`${timestamp}.${body}`).digest("base64"):
\* a collision-free digest is the pair it was computed from
HmacBase64(key, timestamp, body) ==
    [kind |-> "mac", key |-> key, msg |-> [ts |-> timestamp, body |-> body]]

Junk32 == [kind |-> "junk32", key |-> "", msg |-> NoMsg]
Short16 == [kind |-> "short16", key |-> "", msg |-> NoMsg]

\* bytes that are no digest anybody computed
Garbled == [kind |-> "garbled", key |-> "", msg |-> NoMsg]

\* the characters of the base64 and base64url alphabets; the decoder skips
\* any other character but "="
Base64Alphabet ==
    HexDigits
    \cup {"g", "h", "i", "j", "k", "l", "m", "n", "o", "p", "q", "r", "s", "t",
          "u", "v", "w", "x", "y", "z", "G", "H", "I", "J", "K", "L", "M", "N",
          "O", "P", "Q", "R", "S", "T", "U", "V", "W", "X", "Y", "Z",
          "+", "/", "-", "_"}

\* the base64 digits of a token before its padding: 32 bytes are 43 digits
\* and one "=", 16 bytes are 22 digits and two
TokenDigits(tok) == IF tok.kind = "short16" THEN 22 ELSE 43

\* Buffer.from(text, "base64"): characters outside the alphabet are
\* skipped, the digits up to the first "=" are decoded, six bits each, and
\* an incomplete last byte is dropped.  The bytes are the token's when its
\* digits are all the digits of the text.
Base64Decode(text) ==
    LET stops == {i \in 1..Len(text.lead) : text.lead[i] = "="}
        upto == IF stops = {} THEN Len(text.lead)
                ELSE (CHOOSE i \in stops : \A j \in stops : i <= j) - 1
        leadDigits ==
            Cardinality({i \in 1..upto : text.lead[i] \in Base64Alphabet})
        reached == text.has /\ stops = {}
        digits == IF reached THEN leadDigits + TokenDigits(text.tok) - text.cut
                  ELSE leadDigits
    IN  [len |-> (digits * 6) \div 8,
         val |-> IF reached /\ leadDigits = 0 /\ text.cut = 0
                 THEN text.tok ELSE Garbled]

MsPerDay == 86400000

\* A time value is a day number and the milliseconds into that day, so that
\* the years a digit string can name stay within the integers.
NaN == [nan |-> TRUE, day |-> 0, ms |-> 0]
TimeValue(ms) == [nan |-> FALSE, day |-> ms \div MsPerDay, ms |-> ms % MsPerDay]

\* DayFromYear of ECMAScript: the day number of 1 January of year y
DayFromYear(y) ==
    365 * (y - 1970) + (y - 1969) \div 4 - (y - 1901) \div 100
        + (y - 1601) \div 400

YearStart(y) == [nan |-> FALSE, day |-> DayFromYear(y), ms |-> 0]

\* the days before the first of month m in a year that is no leap year
MonthStart(m) ==
    CASE m = 1 -> 0 [] m = 2 -> 31 [] m = 3 -> 59 [] m = 4 -> 90
      [] m = 5 -> 120 [] m = 6 -> 151 [] m = 7 -> 181 [] m = 8 -> 212
      [] m = 9 -> 243 [] m = 10 -> 273 [] m = 11 -> 304 [] m = 12 -> 334

\* the last year whose first day is a time value
MaxYear == 275760

\* new Date(digits) for a string of decimal digits without a sign: four
\* digits are a year of the ISO format; any other length goes to the
\* fallback parser, which takes 1..12 for a month of 2001, refuses 13..31,
\* and takes anything else for a year (0..49 in 2000, 50..99 in 1900), in
\* local time, here UTC.  A year past MaxYear is no date.
DigitsDate(n) ==
    IF Len(NatToString(n)) = 4 THEN YearStart(n)
    ELSE IF n \in 1..12
         THEN [nan |-> FALSE, day |-> DayFromYear(2001) + MonthStart(n), ms |-> 0]
    ELSE IF n \in 13..31 THEN NaN
    ELSE LET year == IF n <= 49 THEN 2000 + n
                     ELSE IF n <= 99 THEN 1900 + n ELSE n
         IN  IF year <= MaxYear THEN YearStart(year) ELSE NaN

\* new Date(timestamp).getTime() for a timestamp text: an ISO text or a
\* digit string
DateParse(ts) ==
    IF ts.fmt = "iso" THEN TimeValue(ts.t) ELSE DigitsDate(ts.t)

\* now - date, compared with a limit below one day: negative when the date
\* is on a later day, at least a day when it is two days back
ElapsedBelow(now, date, limit) ==
    LET n == TimeValue(now)
        days == n.day - date.day
    IN  \/ days < 0
        \/ days = 0 /\ n.ms - date.ms < limit
        \/ days = 1 /\ MsPerDay + n.ms - date.ms < limit

\* now.getTime() - date.getTime() < 60000
IsWithinFiveMinutes(now, date) ==
    ~date.nan /\ ElapsedBelow(now, date, ReplayWindow)

NoHeader == [form |-> "none", ts |-> NoTs, pre |-> <<>>, sig |-> Junk32]

\* "t=<ts>,<pre><sig>" as split(",") sees it; form "nocomma" has one segment
SignedHeader(ts, pre, sig) == [form |-> "ok", ts |-> ts, pre |-> pre, sig |-> sig]

\* what a sender may put before the digest: "s=", "v1=", nothing, "s",
\* "sig=", "v1x", "s=*" and "s=,"
SigPrefixes ==
    {<<"s", "=">>, <<"v", "1", "=">>, <<>>, <<"s">>,
     <<"s", "i", "g", "=">>, <<"v", "1", "x">>,
     <<"s", "=", "*">>, <<"s", "=", ",">>}

\* the texts a sender signs: a body as sent, or the text this server signs
SignedBodies == {"thread7", "[object Object]"}

\* who may have signed what: either tenant's secret, over the text
\* "<ts>.<body>" for one of these bodies
SigTokens(ts) ==
    {HmacBase64(k, ts, b) : k \in {"kA", "kB"}, b \in SignedBodies}
    \cup {Junk32, Short16}

Headers ==
    {NoHeader, [NoHeader EXCEPT !.form = "nocomma"]}
    \cup UNION {{SignedHeader(ts, pre, sig) : pre \in SigPrefixes,
                                              sig \in SigTokens(ts)} :
                ts \in TsTokens}

\* the header a sender who knows tenant A's secret attaches at T0 so that
\* this server accepts it
GoodHeaderA ==
    SignedHeader([fmt |-> "iso", t |-> T0], <<"s", "=">>,
                 HmacBase64("kA", [fmt |-> "iso", t |-> T0], "[object Object]"))


-----------------------------------------------------------------------------
(* CommonClient._validateWebhook                                           *)

Verdict(status, hmac) == [status |-> status, hmac |-> hmac]

\* the comparison and freshness test, once a string key and a two-segment
\* header are at hand (lines 165-189); status 0 is next()
CheckSignature(signingKey, obj, hdr, now) ==
    LET timestamp == hdr.ts    \* "t=<ts>".substring(2)
        originalSignature == SegText(hdr.pre, hdr.sig)
        reconstructedSig == HmacBase64(signingKey, timestamp, ObjectToString(obj))
        a == Base64Decode(originalSignature)
        b == Base64Decode(WholeText(reconstructedSig))
    IN  IF a.len # b.len THEN Verdict(500, TRUE)   \* timingSafeEqual throws
        ELSE IF a = b /\ IsWithinFiveMinutes(now, DateParse(timestamp))
             THEN Verdict(0, TRUE)
             ELSE Verdict(401, TRUE)

\* what follows the two 401 answers (lines 165-189): the header is cut, the
\* body converted, the digest computed and compared; each throw is a 500
SignedPart(signingKey, obj, hdr, now) ==
    IF hdr.form = "nocomma" THEN Verdict(500, FALSE)
    ELSE IF ObjectToString(obj) = ToStringThrows THEN Verdict(500, FALSE)
    ELSE IF signingKey = InheritedFn THEN Verdict(500, FALSE)
    ELSE CheckSignature(signingKey, obj, hdr, now)

\* as ValidateWebhook, looking at the schema only after the key and the
\* header were found, and not at all without keys
ValidateWebhookSchemaLast(cfg, wire, hdr, now) ==
    LET obj == RawBody[wire]
        body == ParsedBody[wire]
    IN  IF ~cfg.enabled THEN Verdict(0, FALSE)
        ELSE LET signingKey == KeyLookup(cfg.keys, body.community_id)
             IN  IF signingKey = "" THEN Verdict(401, FALSE)
                 ELSE IF hdr.form = "none" THEN Verdict(401, FALSE)
                 ELSE IF ~SchemaOK(obj) THEN Verdict(400, FALSE)
                 ELSE SignedPart(signingKey, obj, hdr, now)

\* as ValidateWebhook, asking for a signature header even when no signing
\* keys are configured
ValidateWebhookHeaderAlways(cfg, wire, hdr, now) ==
    LET obj == RawBody[wire]
        body == ParsedBody[wire]
    IN  IF ~SchemaOK(obj) THEN Verdict(400, FALSE)
        ELSE IF hdr.form = "none" THEN Verdict(401, FALSE)
        ELSE IF ~cfg.enabled THEN Verdict(0, FALSE)
        ELSE LET signingKey == KeyLookup(cfg.keys, body.community_id)
             IN  IF signingKey = "" THEN Verdict(401, FALSE)
                 ELSE SignedPart(signingKey, obj, hdr, now)

\* the whole middleware: the HTTP status it answers, 0 when it calls next().
\* rawBody is the body as parsed, req.body the schema's output.
ValidateWebhook(cfg, wire, hdr, now) ==
    LET rawBody == RawBody[wire]
        body == ParsedBody[wire]
    IN  IF ~SchemaOK(rawBody) THEN Verdict(400, FALSE)
        ELSE IF ~cfg.enabled THEN Verdict(0, FALSE)
        ELSE LET signingKey == KeyLookup(cfg.keys, body.community_id)
             IN  IF signingKey = "" THEN Verdict(401, FALSE)
                 ELSE IF hdr.form = "none" THEN Verdict(401, FALSE)
                 ELSE SignedPart(signingKey, rawBody, hdr, now)

-----------------------------------------------------------------------------
(* MessageManager._generateMemoryIds                                       *)

\* stringToUuid: a collision-free hash is the text it was computed from
stringToUuid(text) == <<"uuid">> \o text

\* the event handed to handleMessage: req.body's fields plus the full text
Augment(obj, content) ==
    [community_id |-> obj.community_id, profile_name |-> obj.profile_name,
     object_url |-> obj.object_url, object_summary |-> obj.object_summary,
     content_url |-> obj.content_url, content_type |-> obj.content_type,
     thread_id |-> obj.thread_id[1], comment_id |-> obj.comment_id,
     author_user_id |-> obj.author_user_id, full_object_text |-> content]

\* message.comment_id || message.thread_id
CommentOrThreadId(message) ==
    IF message.comment_id # <<>> /\ message.comment_id[1] # 0
    THEN message.comment_id[1]
    ELSE message.thread_id

\* as EventMessageId, hashing the full text into the id as well
EventMessageIdOfText(message) ==
    stringToUuid(Dash3(<<message.content_type>>,
                       NumToString(CommentOrThreadId(message)), agentId)
                 \o message.full_object_text)

\* as EventMessageId, leaving the content_type out of the hashed text
EventMessageIdNoType(message) ==
    stringToUuid(NumToString(CommentOrThreadId(message)) \o <<"-">> \o agentId)

\* the messageId of an inbound event (lines 116-118)
EventMessageId(message) ==
    stringToUuid(Dash3(<<message.content_type>>,
                       NumToString(CommentOrThreadId(message)), agentId))

\* author_user_id === this.commonUserId: a number and an object are never
\* the same value
StrictEquals(number, user) == FALSE

\* _generateMemoryIds({message})
EventMemoryIds(message) ==
    [roomId |-> stringToUuid(Dash3(<<message.community_id>>,
                                   NumToString(message.thread_id), agentId)),
     userId |-> IF StrictEquals(message.author_user_id, commonUserId)
                THEN agentId
                ELSE stringToUuid(NumToString(message.author_user_id)
                                  \o <<"-">> \o agentId),
     messageId |-> EventMessageId(message)]

\* _generateMemoryIds({commentResponse})
ReplyMemoryIds(res) ==
    [roomId |-> stringToUuid(Dash3(<<res.community_id>>,
                                   NumToString(res.thread_id), agentId)),
     userId |-> agentId,
     messageId |-> stringToUuid(Dash3(<<"comment">>, NumToString(res.id), agentId))]

-----------------------------------------------------------------------------
(* Collaborators                                                           *)

\* A memory row.  by/dir are history: the POST that wrote the row and
\* whether it is the inbound event ("in") or the published reply ("out").
Memory(ids, text, r, dir) ==
    [id |-> ids.messageId, userId |-> ids.userId, roomId |-> ids.roomId,
     text |-> text, by |-> r, dir |-> dir]

\* runtime.messageManager.createMemory: insert unless the id is stored
CreateMemory(st, memory) ==
    IF \E i \in 1..Len(st) : st[i].id = memory.id THEN st ELSE Append(st, memory)

\* response.text of a generated response, a string like every other text
ReplyText == <<"o", "k">>

NoComment ==
    [id |-> 0, thread_id |-> 0, community_id |-> "", parent_id |-> <<>>,
     body |-> <<>>, by |-> 0]

\* what Common answers to createComment: the new comment, with a fresh id
CreatedComment(cs, message, response, r) ==
    [id |-> 100 + Len(cs), thread_id |-> message.thread_id,
     community_id |-> message.community_id, parent_id |-> message.comment_id,
     body |-> response, by |-> r]

\* generateShouldRespond's answers
Signals == {"RESPOND", "IGNORE", "STOP"}

\* generateMessageResponse's answers: nothing, a text, a text with an action
Generated == {"absent", "text", "text+action"}

-----------------------------------------------------------------------------
(* MessageManager._shouldRespond                                           *)

\* the two guards ahead of the classifier (lines 46-55)
ReachesClassifier(message) ==
    /\ ~StrictEquals(message.author_user_id, commonUserId)
    /\ Includes(message.full_object_text, UserToString(commonUserId))

\* what _shouldRespond returns when the classifier, if asked, gives signal
ShouldRespond(message, signal) ==
    ReachesClassifier(message) /\ signal = "RESPOND"

-----------------------------------------------------------------------------
(* The server                                                              *)

\* A POST that has not arrived yet.  status 0: no response sent.  History:
\* passed (the verifier called next()), hmac (it computed a signature),
\* fetch (how the fetch of the overflow URL ended, "none" without one),
\* fetched (the body it returned), signal (the classifier's answer, "none"
\* when it was not asked), calls (the collaborator calls made for this
\* POST, in order) and threw (a collaborator call of handleMessage threw).
IdleReq ==
    [pc |-> "idle", wire |-> "", hdr |-> NoHeader, now |-> 0, status |-> 0,
     hmac |-> FALSE, passed |-> FALSE, fetch |-> "none", fetched |-> <<>>,
     text |-> <<>>, signal |-> "none", resp |-> "none", res |-> NoComment,
     calls |-> <<>>, threw |-> FALSE]

\* the constructor: this.config = validateCommonConfig(runtime)
Init ==
    /\ settings \in ProcessSettings
    /\ config = ValidateCommonConfig(settings)
    /\ reqs = [r \in Reqs |-> IdleReq]
    /\ store = <<>>
    /\ comments = <<>>

\* the client constructed from a configuration without a key map
InitDefault == Init /\ settings = SettingsWith(<<>>)

\* the augmented message of a POST that passed the verifier
Message(r) == Augment(Body(reqs[r].wire), reqs[r].text)

\* res.status(code).send(...): the POST is over
Respond(req, code) == [req EXCEPT !.pc = "done", !.status = code]

Call(req, name) == [req EXCEPT !.calls = Append(@, name)]

\* A POST arrives at the server of a client that was constructed:
\* express.json(), then _validateWebhook (lines 117-190)
Receive(r, wires, hdrs, nows) ==
    /\ ~config.failed
    /\ reqs[r].pc = "idle"
    /\ \A q \in Reqs : q < r => reqs[q].pc # "idle"
    /\ \E wire \in wires, hdr \in hdrs, now \in nows :
        LET v == ValidateWebhook(config, wire, hdr, now)
            got == [IdleReq EXCEPT !.wire = wire, !.hdr = hdr, !.now = now,
                                   !.hmac = v.hmac]
        IN  reqs' = [reqs EXCEPT ![r] =
                        IF v.status = 0
                        THEN [got EXCEPT !.pc = "normalize", !.passed = TRUE]
                        ELSE Respond(got, v.status)]
    /\ UNCHANGED <<settings, config, store, comments>>

\* as HasContentUrl, taking the empty string for a URL
HasContentUrlNotNull(obj) == obj.content_url # <<>>

\* req.body.content_url is truthy
HasContentUrl(obj) == obj.content_url # <<>> /\ obj.content_url[1] # ""

\* how fetch ends: a response that is ok, one that is not, or a rejection
FetchOutcomes == {"ok", "notOk", "throws"}

\* the POST after fetch was called and ended as given
Fetched(req, outcome) == [Call(req, "fetch") EXCEPT !.fetch = outcome]

\* as Normalize, going on with object_summary when the response is not ok
NormalizePartial(r) ==
    /\ reqs[r].pc = "normalize"
    /\ LET obj == Body(reqs[r].wire)
       IN  IF HasContentUrl(obj)
           THEN \E outcome \in FetchOutcomes :
                   reqs' = [reqs EXCEPT ![r] =
                       CASE outcome = "ok" ->
                                [Fetched(@, outcome) EXCEPT !.pc = "readText"]
                         [] outcome = "notOk" ->
                                [Fetched(@, outcome) EXCEPT
                                    !.text = obj.object_summary, !.pc = "connect"]
                         [] outcome = "throws" -> Respond(Fetched(@, outcome), 500)]
           ELSE reqs' = [reqs EXCEPT ![r].text = obj.object_summary,
                                     ![r].pc = "connect"]
    /\ UNCHANGED <<settings, config, store, comments>>

\* _handleCommonEvent up to the fetch (lines 196-212), or up to the call of
\* handleMessage when there is nothing to fetch (lines 198, 223-228); a
\* rejected fetch lands in the catch of lines 236-241
Normalize(r) ==
    /\ reqs[r].pc = "normalize"
    /\ LET obj == Body(reqs[r].wire)
       IN  IF HasContentUrl(obj)
           THEN \E outcome \in FetchOutcomes :
                   reqs' = [reqs EXCEPT ![r] =
                       CASE outcome = "ok" ->
                                [Fetched(@, outcome) EXCEPT !.pc = "readText"]
                         [] outcome = "notOk" -> Respond(Fetched(@, outcome), 400)
                         [] outcome = "throws" -> Respond(Fetched(@, outcome), 500)]
           ELSE reqs' = [reqs EXCEPT ![r].text = obj.object_summary,
                                     ![r].pc = "connect"]
    /\ UNCHANGED <<settings, config, store, comments>>

\* content = await contentResponse.text() (line 214)
ReadText(r) ==
    /\ reqs[r].pc = "readText"
    /\ \E content \in FetchedTexts :
           reqs' = [reqs EXCEPT ![r].fetched = <<content>>, ![r].text = content,
                                ![r].pc = "connect"]
    /\ UNCHANGED <<settings, config, store, comments>>

\* handleMessage up to the return of ensureConnection (lines 132-140)
Connect(r) ==
    /\ reqs[r].pc = "connect"
    /\ reqs' = [reqs EXCEPT ![r].pc = "record"]
    /\ UNCHANGED <<settings, config, store, comments>>

\* the inbound memory: createMemory (lines 142-157)
RecordInbound(r) ==
    /\ reqs[r].pc = "record"
    /\ LET message == Message(r)
           memory == Memory(EventMemoryIds(message), message.full_object_text,
                            r, "in")
       IN  store' = CreateMemory(store, memory)
    /\ reqs' = [reqs EXCEPT ![r] = [Call(@, "createMemory") EXCEPT !.pc = "compose"]]
    /\ UNCHANGED <<settings, config, comments>>

\* the return of composeState (lines 159-163)
Compose(r) ==
    /\ reqs[r].pc = "compose"
    /\ reqs' = [reqs EXCEPT ![r].pc = "decide"]
    /\ UNCHANGED <<settings, config, store, comments>>

\* _shouldRespond (lines 165, 41-72)
Decide(r) ==
    /\ reqs[r].pc = "decide"
    /\ LET message == Message(r)
       IN  IF ReachesClassifier(message)
           THEN \E signal \in Signals :
                   reqs' = [reqs EXCEPT ![r] =
                       [Call(@, "classify") EXCEPT
                           !.signal = signal,
                           !.pc = IF ShouldRespond(message, signal)
                                  THEN "generate" ELSE "skip"]]
           ELSE reqs' = [reqs EXCEPT ![r].pc = "skip"]
    /\ UNCHANGED <<settings, config, store, comments>>

\* as Skip, returning without the call of evaluate
SkipSilent(r) ==
    /\ reqs[r].pc = "skip"
    /\ reqs' = [reqs EXCEPT ![r] = Respond(@, 200)]
    /\ UNCHANGED <<settings, config, store, comments>>

\* not responding: evaluate, return, 200 (lines 166-168, 232-235)
Skip(r) ==
    /\ reqs[r].pc = "skip"
    /\ reqs' = [reqs EXCEPT ![r] = Respond(Call(@, "evaluate"), 200)]
    /\ UNCHANGED <<settings, config, store, comments>>

\* composeContext and generateMessageResponse (lines 171-180, 79-88): with
\* no response _generateResponse returns at once
Generate(r) ==
    /\ reqs[r].pc = "generate"
    /\ \E response \in Generated :
        reqs' = [reqs EXCEPT ![r] =
                    [Call(@, "generate") EXCEPT
                        !.resp = response,
                        !.pc = IF response = "absent" THEN "publish" ELSE "log"]]
    /\ UNCHANGED <<settings, config, store, comments>>

\* databaseAdapter.log of the response (lines 90-97)
Log(r) ==
    /\ reqs[r].pc = "log"
    /\ reqs' = [reqs EXCEPT ![r].pc = "publish"]
    /\ UNCHANGED <<settings, config, store, comments>>

\* as Publish, calling createComment a second time when the first call fails
PublishRetry(r) ==
    /\ reqs[r].pc = "publish"
    /\ reqs[r].resp # "absent"
    /\ \E ok \in BOOLEAN :
           IF ok
           THEN LET res == CreatedComment(comments, Message(r), ReplyText, r)
                IN  /\ comments' = Append(comments, res)
                    /\ reqs' = [reqs EXCEPT ![r] =
                           [Call(@, "createComment") EXCEPT
                               !.res = res, !.pc = "recordReply"]]
           ELSE /\ reqs' = [reqs EXCEPT ![r] =
                       Respond(Call(Call(@, "createComment"), "createComment"), 500)]
                /\ UNCHANGED comments
    /\ UNCHANGED <<settings, config, store>>

\* as Publish, answering with the reply already published for the same
\* thread and parent instead of creating another
PublishOnce(r) ==
    /\ reqs[r].pc = "publish"
    /\ reqs[r].resp # "absent"
    /\ LET message == Message(r)
           same == {i \in DOMAIN comments :
                       /\ comments[i].thread_id = message.thread_id
                       /\ comments[i].parent_id = message.comment_id}
           res == IF same = {}
                  THEN CreatedComment(comments, message, ReplyText, r)
                  ELSE comments[CHOOSE i \in same : TRUE]
       IN  /\ comments' = IF same = {} THEN Append(comments, res) ELSE comments
           /\ reqs' = [reqs EXCEPT ![r] =
                  [Call(@, "createComment") EXCEPT
                      !.res = res, !.pc = "recordReply"]]
    /\ UNCHANGED <<settings, config, store>>

\* as Publish, posting an empty reply when the generator returned nothing
PublishBlank(r) ==
    /\ reqs[r].pc = "publish"
    /\ LET res == CreatedComment(comments, Message(r),
                                 IF reqs[r].resp = "absent" THEN <<>> ELSE ReplyText, r)
       IN  /\ comments' = Append(comments, res)
           /\ reqs' = [reqs EXCEPT ![r] =
                  [Call(@, "createComment") EXCEPT
                      !.res = res, !.pc = "recordReply"]]
    /\ UNCHANGED <<settings, config, store>>

\* createComment (lines 182-186).  With no response, reading response.text
\* throws before the call; a failed call throws too; the catch of
\* _handleCommonEvent answers 500 (lines 236-241).
Publish(r) ==
    /\ reqs[r].pc = "publish"
    /\ IF reqs[r].resp = "absent"
       THEN /\ reqs' = [reqs EXCEPT ![r] = Respond(@, 500)]
            /\ UNCHANGED comments
       ELSE \E ok \in BOOLEAN :
               IF ok
               THEN LET res == CreatedComment(comments, Message(r), ReplyText, r)
                    IN  /\ comments' = Append(comments, res)
                        /\ reqs' = [reqs EXCEPT ![r] =
                               [Call(@, "createComment") EXCEPT
                                   !.res = res, !.pc = "recordReply"]]
               ELSE /\ reqs' = [reqs EXCEPT ![r] =
                           Respond(Call(@, "createComment"), 500)]
                    /\ UNCHANGED comments
    /\ UNCHANGED <<settings, config, store>>

\* the reply's memory (lines 188-204)
RecordReply(r) ==
    /\ reqs[r].pc = "recordReply"
    /\ LET res == reqs[r].res
           resMemory == Memory(ReplyMemoryIds(res), res.body, r, "out")
       IN  store' = CreateMemory(store, resMemory)
    /\ reqs' = [reqs EXCEPT ![r] =
           [Call(@, "createMemory") EXCEPT
               !.pc = IF reqs[r].resp = "text+action" THEN "effects"
                      ELSE "evaluate"]]
    /\ UNCHANGED <<settings, config, comments>>

\* as Effects, calling evaluate before the action is dispatched
EffectsEvaluateFirst(r) ==
    /\ reqs[r].pc = "effects"
    /\ reqs' = [reqs EXCEPT ![r] =
           Respond(Call(Call(@, "evaluate"), "processActions"), 200)]
    /\ UNCHANGED <<settings, config, store, comments>>

\* processActions, when the response names an action (lines 206-212)
Effects(r) ==
    /\ reqs[r].pc = "effects"
    /\ reqs' = [reqs EXCEPT ![r] = [Call(@, "processActions") EXCEPT !.pc = "evaluate"]]
    /\ UNCHANGED <<settings, config, store, comments>>

\* evaluate, return, 200 (lines 214, 232-235)
Evaluate(r) ==
    /\ reqs[r].pc = "evaluate"
    /\ reqs' = [reqs EXCEPT ![r] = Respond(Call(@, "evaluate"), 200)]
    /\ UNCHANGED <<settings, config, store, comments>>

Pipeline(r) ==
    \/ Normalize(r)
    \/ ReadText(r)
    \/ Connect(r)
    \/ RecordInbound(r)
    \/ Compose(r)
    \/ Decide(r)
    \/ Skip(r)
    \/ Generate(r)
    \/ Log(r)
    \/ Publish(r)
    \/ RecordReply(r)
    \/ Effects(r)
    \/ Evaluate(r)

\* The positions at which _handleCommonEvent or handleMessage awaits a
\* collaborator outside the fetch and createComment: contentResponse.text,
\* ensureConnection and createMemory, composeState and generateShouldRespond,
\* evaluate, generateMessageResponse, databaseAdapter.log, createMemory of
\* the reply, processActions, evaluate (index.ts line 214, messages.ts lines
\* 79, 90, 134-214).
AwaitPositions ==
    {"readText", "connect", "record", "compose", "decide", "skip", "generate",
     "log", "recordReply", "effects", "evaluate"}

\* The calls a POST has made when the collaborator awaited at its position
\* throws: none of the recorded ones, or the one that threw.  _shouldRespond
\* awaits nobody when it does not reach the classifier.
ThrowCalls(r) ==
    LET pc == reqs[r].pc
    IN  CASE pc = "record" -> {<<"createMemory">>}
          [] pc = "decide" ->
                IF ReachesClassifier(Message(r)) THEN {<<"classify">>} ELSE {}
          [] pc = "skip" -> {<<"evaluate">>}
          [] pc = "generate" -> {<<"generate">>}
          [] pc = "recordReply" -> {<<"createMemory">>}
          [] pc = "effects" -> {<<"processActions">>}
          [] pc = "evaluate" -> {<<"evaluate">>}
          [] OTHER -> {<<>>}

\* as Throws, the rejection left without an answer
ThrowsUnanswered(r) ==
    /\ reqs[r].pc \in AwaitPositions
    /\ reqs' = [reqs EXCEPT ![r].threw = TRUE, ![r].pc = "lost"]
    /\ UNCHANGED <<settings, config, store, comments>>

\* The awaited call throws: nothing in handleMessage catches, the catch of
\* _handleCommonEvent answers 500 (index.ts lines 236-241).
Throws(r) ==
    /\ reqs[r].pc \in AwaitPositions
    /\ \E made \in ThrowCalls(r) :
           reqs' = [reqs EXCEPT ![r] =
               Respond([@ EXCEPT !.threw = TRUE, !.calls = @ \o made], 500)]
    /\ UNCHANGED <<settings, config, store, comments>>

\* Bodies whose processing differs past the verifier: the agent's own
\* comment, somebody's thread with overflow, a bad body
PipelineBodies == {"selfQuoted", "overflowB", "badSchema"}

\* Concurrent POSTs, each carrying the header that is good for tenant A
Next ==
    \E r \in Reqs : Receive(r, PipelineBodies, {GoodHeaderA}, {T0}) \/ Pipeline(r)

Spec == InitDefault /\ [][Next]_vars

\* One POST with any header of the pool, verified at T0 or a window later,
\* whose collaborator calls return or throw
NextVerify ==
    \/ Receive(1, Bodies, Headers, {T0, T0 + ReplayWindow})
    \/ Pipeline(1)
    \/ Throws(1)

\* the client constructed from a configuration without a key map or with
\* the key map of tenants A and B
InitKeysOrNone ==
    Init /\ settings \in {SettingsWith(<<>>), SettingsWith(<<KeysABText>>)}

SpecVerify == InitKeysOrNone /\ [][NextVerify]_vars

\* The body for the runs to completion: a thread with an overflow URL, whose
\* fetched text decides whether the classifier is reached
LiveBodies == {"overflowB"}

\* Concurrent POSTs whose collaborator calls return or throw
NextLive ==
    \E r \in Reqs :
        Receive(r, LiveBodies, {GoodHeaderA}, {T0}) \/ Pipeline(r) \/ Throws(r)

\* While some POST is waiting for a collaborator, one of the awaited calls
\* eventually returns or throws; arrivals themselves are up to the sender.
SpecLive ==
    /\ InitDefault
    /\ [][NextLive]_vars
    /\ WF_vars(\E r \in Reqs : Pipeline(r) \/ Throws(r))

\* One POST to the client as constructed, without a header or with the
\* header that is good for tenant A
NextStartup ==
    Receive(1, PipelineBodies, {NoHeader, GoodHeaderA}, {T0}) \/ Pipeline(1)

SpecStartup == Init /\ [][NextStartup]_vars

-----------------------------------------------------------------------------
(* Vocabulary of the properties                                            *)

Arrived(r) == reqs[r].pc # "idle"

Obj(r) == Body(reqs[r].wire)

\* the body as it was parsed from the wire
Raw(r) == RawBody[reqs[r].wire]

\* how often the POST called the named collaborator
Calls(r, name) ==
    LET Named(c) == c = name IN Len(SelectSeq(reqs[r].calls, Named))

\* the rows of the store under a message id
Rows(id) == {i \in DOMAIN store : store[i].id = id}

\* the event was written by the agent's own Common user
OwnEvent(r) == Obj(r).author_user_id = CommonUser.id

\* the first createMemory of the POST is the call that threw
FirstRecordThrew(r) ==
    /\ reqs[r].threw
    /\ Calls(r, "createMemory") = 1
    /\ reqs[r].calls[Len(reqs[r].calls)] = "createMemory"
    /\ reqs[r].res = NoComment

\* handleMessage has recorded the POST's inbound memory
Recorded(r) == reqs[r].pc \in {"compose", "decide", "skip", "generate", "log",
                               "publish", "recordReply", "effects", "evaluate"}
               \/ (/\ reqs[r].pc = "done"
                   /\ Calls(r, "createMemory") >= 1
                   /\ ~FirstRecordThrew(r))

-----------------------------------------------------------------------------
\* C1: an event written by the agent itself never reaches the classifier,
\* text generation or createComment, whatever its text; once it is answered
\* 200 its inbound memory is stored exactly once and evaluate has run once.
C1_SelfFilter ==
    \A r \in Reqs :
        (Arrived(r) /\ OwnEvent(r)) =>
            /\ Calls(r, "generate") = 0
            /\ Calls(r, "createComment") = 0
            /\ Calls(r, "classify") = 0
            /\ reqs[r].status = 200 =>
                /\ Calls(r, "createMemory") = 1
                /\ Cardinality(Rows(EventMessageId(Message(r)))) = 1
                /\ Calls(r, "evaluate") = 1

\* C2: however often and however interleaved the same body is delivered,
\* the store holds one row under the message id of a recorded delivery, and
\* never two inbound rows written for the same body.
C2_IdempotentInbound ==
    /\ \A r \in Reqs :
        Recorded(r) => Cardinality(Rows(EventMessageId(Message(r)))) = 1
    /\ \A i, j \in DOMAIN store :
        (/\ store[i].dir = "in"
         /\ store[j].dir = "in"
         /\ reqs[store[i].by].wire = reqs[store[j].by].wire) => i = j

\* the same body delivered twice, both deliveries recorded, with different
\* fetched texts
C2_Witness ==
    \E r, q \in Reqs :
        /\ r # q
        /\ Recorded(r) /\ Recorded(q)
        /\ reqs[r].wire = reqs[q].wire
        /\ reqs[r].text # reqs[q].text
        /\ Cardinality(Rows(EventMessageId(Message(r)))) = 1

\* createComment was called and gave no comment
PublishFailed(r) ==
    Calls(r, "createComment") >= 1 /\ reqs[r].res = NoComment

\* C3: a failed createComment is the only attempt of its POST, which ends
\* with 500 and without reply memory, action dispatch or evaluate, while
\* the inbound memory recorded before stays in the store.
C3_PublishFailureFatal ==
    \A r \in Reqs :
        (Arrived(r) /\ PublishFailed(r)) =>
            /\ Calls(r, "createComment") = 1
            /\ reqs[r].pc = "done"
            /\ reqs[r].status = 500
            /\ \A i \in DOMAIN store : ~(store[i].by = r /\ store[i].dir = "out")
            /\ Calls(r, "createMemory") = 1
            /\ Calls(r, "processActions") = 0
            /\ Calls(r, "evaluate") = 0
            /\ Rows(EventMessageId(Message(r))) # {}

C3_Witness ==
    \E r \in Reqs :
        /\ Arrived(r) /\ PublishFailed(r)
        /\ reqs[r].status = 500
        /\ \E i \in DOMAIN store : store[i].by = r /\ store[i].dir = "in"

\* the POST got a comment back from createComment
Published(r) == reqs[r].res # NoComment

\* C4: when two deliveries of the same body have both published, Common
\* holds two replies to the same originating message, one per delivery,
\* and the store still holds one row for the inbound message.
C4_PublishNotIdempotent ==
    \A r, q \in Reqs :
        (/\ r # q
         /\ Arrived(r) /\ Arrived(q)
         /\ reqs[r].wire = reqs[q].wire
         /\ Published(r) /\ Published(q)) =>
            /\ reqs[r].res.id # reqs[q].res.id
            /\ \E i, j \in DOMAIN comments :
                /\ i # j
                /\ comments[i].by = r /\ comments[j].by = q
                /\ comments[i].thread_id = comments[j].thread_id
                /\ comments[i].parent_id = comments[j].parent_id
            /\ Cardinality(Rows(EventMessageId(Message(r)))) = 1

\* the second delivery published after the first was answered 200
C4_Witness ==
    \E r, q \in Reqs :
        /\ r # q
        /\ reqs[r].wire = reqs[q].wire
        /\ reqs[r].status = 200
        /\ Published(r) /\ Published(q)
        /\ reqs[r].res.id < reqs[q].res.id
        /\ Len(comments) = 2
        /\ Cardinality(Rows(EventMessageId(Message(r)))) = 1

-----------------------------------------------------------------------------
(* The verifier's properties, checked under SpecVerify                     *)

\* the header has a timestamp and a signature segment
TwoSegments(r) == reqs[r].hdr.form = "ok"

\* the instant the header's timestamp denotes
HeaderTime(r) == reqs[r].hdr.ts.t

\* the timestamp is a full window or more behind the verification time
Stale(r) == TwoSegments(r) /\ reqs[r].now - HeaderTime(r) >= ReplayWindow

\* the timestamp is a full window or more ahead of the verification time
Ahead(r) == TwoSegments(r) /\ HeaderTime(r) - reqs[r].now >= ReplayWindow

\* the signature this server computes for the POST under the given key
ServerSignature(r, key) ==
    HmacBase64(key, reqs[r].hdr.ts, "[object Object]")

\* the process configuration holds a signing key map
MapSupplied ==
    /\ settings["COMMON_WEBHOOK_SIGNING_KEYS"] # <<>>
    /\ ParseKeyMap(settings["COMMON_WEBHOOK_SIGNING_KEYS"][1]).ok

\* the signing key map of the process configuration, when it holds one
SuppliedKeys == ParseKeyMap(settings["COMMON_WEBHOOK_SIGNING_KEYS"][1]).map

\* the verifier answered itself and nothing ran for the POST
Rejected(r) ==
    /\ ~reqs[r].passed
    /\ reqs[r].pc = "done"
    /\ reqs[r].calls = <<>>

\* C5: a POST whose timestamp is 60 s or more old is never
\* passed on, whatever the configuration.
C5_StaleNeverPassed ==
    \A r \in Reqs : (Arrived(r) /\ Stale(r)) => ~reqs[r].passed

\* C6: with keys configured, a POST whose timestamp is 60 s or more away
\* from the verification time, behind or ahead, is not passed on.
C6_SymmetricWindow ==
    \A r \in Reqs :
        (Arrived(r) /\ MapSupplied /\ (Stale(r) \/ Ahead(r))) =>
            ~reqs[r].passed

\* C7: a header the verifier accepts with one body is rejected with every
\* other schema-valid body of the same tenant.
C7_SignatureBindsBody ==
    \A r \in Reqs :
        (Arrived(r) /\ MapSupplied /\ reqs[r].passed) =>
            \A other \in Bodies \ {reqs[r].wire} :
                (/\ SchemaOK(RawBody[other])
                 /\ Body(other).community_id = Obj(r).community_id) =>
                    ValidateWebhook(config, other, reqs[r].hdr,
                                    reqs[r].now).status # 0

\* the header carries tenant A's HMAC over its own timestamp and either the
\* POST's wire body or the text the server signs
SignedByA(r) ==
    /\ TwoSegments(r)
    /\ reqs[r].hdr.sig.kind = "mac"
    /\ reqs[r].hdr.sig.key = "kA"
    /\ reqs[r].hdr.sig.msg.ts = reqs[r].hdr.ts
    /\ reqs[r].hdr.sig.msg.body \in {reqs[r].wire, "[object Object]"}

\* C8: a POST signed with tenant A's secret whose body names tenant B is
\* answered 401 and never processed.
C8_TenantIsolation ==
    \A r \in Reqs :
        (/\ Arrived(r)
         /\ settings = SettingsWith(<<KeysABText>>)
         /\ SignedByA(r)
         /\ Obj(r).community_id = "B") =>
            Rejected(r) /\ reqs[r].status = 401

\* the header's signature is not the one this server computes under the
\* key, or its timestamp is no instant less than a window back
FailsChecks(r, key) ==
    \/ ~TwoSegments(r)
    \/ Base64Decode(SegText(reqs[r].hdr.pre, reqs[r].hdr.sig)) #
           Base64Decode(WholeText(ServerSignature(r, key)))
    \/ ~IsWithinFiveMinutes(reqs[r].now, DateParse(reqs[r].hdr.ts))

\* C9: with a key registered for the tenant, every POST whose signature
\* header fails the comparison or the freshness test is not passed on and
\* is answered 401, whatever the header holds.
C9_UniformRejection ==
    \A r \in Reqs :
        (/\ Arrived(r)
         /\ MapSupplied
         /\ SchemaOK(Raw(r))
         /\ Obj(r).community_id \in DOMAIN SuppliedKeys
         /\ reqs[r].hdr.form # "none"
         /\ FailsChecks(r, SuppliedKeys[Obj(r).community_id])) =>
            ~reqs[r].passed /\ reqs[r].status = 401

\* C10: with a key map that has no key for the event's community_id, the
\* POST is answered 401 and no signature is computed, whatever the header.
C10_UnknownTenant ==
    \A r \in Reqs :
        (/\ Arrived(r)
         /\ MapSupplied
         /\ SchemaOK(Raw(r))
         /\ Obj(r).community_id \notin DOMAIN SuppliedKeys) =>
            /\ Rejected(r)
            /\ reqs[r].status = 401
            /\ ~reqs[r].hmac

\* C11: with no signing key map in the process configuration, every POST
\* whose body satisfies the schema is passed on without a signature being
\* computed and is never answered 401, whatever header it carries; the
\* first thing that runs for it is the normalization.
C11_InsecureMode ==
    \A r \in Reqs :
        (/\ Arrived(r)
         /\ settings["COMMON_WEBHOOK_SIGNING_KEYS"] = <<>>
         /\ SchemaOK(Raw(r))) =>
            /\ reqs[r].passed
            /\ ~reqs[r].hmac
            /\ reqs[r].status # 401
            /\ reqs[r].pc = "normalize" => reqs[r].calls = <<>>

\* passed on without keys: a POST with a header a window old whose
\* signature is 16 junk bytes, for a community nobody registered
C11_Witness ==
    \E r \in Reqs :
        /\ settings["COMMON_WEBHOOK_SIGNING_KEYS"] = <<>>
        /\ reqs[r].passed
        /\ reqs[r].pc = "normalize"
        /\ Stale(r)
        /\ reqs[r].hdr.sig = Short16
        /\ reqs[r].wire = "tenantProto"

\* C12: a POST whose body fails the schema is answered 400 by the
\* verifier whatever its header and configuration: no key is looked up for
\* a signature, nothing is fetched, no collaborator is called, and neither
\* the memory store nor Common holds anything written for it.
C12_MalformedBody ==
    \A r \in Reqs :
        (Arrived(r) /\ ~SchemaOK(Raw(r))) =>
            /\ reqs[r].pc = "done"
            /\ reqs[r].status = 400
            /\ ~reqs[r].passed
            /\ ~reqs[r].hmac
            /\ reqs[r].calls = <<>>
            /\ \A i \in DOMAIN store : store[i].by # r
            /\ \A i \in DOMAIN comments : comments[i].by # r

\* a body with an unknown content_type, carrying the header this server
\* would accept for its tenant, answered 400 with keys configured
C12_Witness ==
    \E r \in Reqs :
        /\ MapSupplied
        /\ reqs[r].wire = "badType"
        /\ reqs[r].hdr = GoodHeaderA
        /\ reqs[r].status = 400
        /\ store = <<>> /\ comments = <<>>

-----------------------------------------------------------------------------
(* Normalization                                                           *)

\* the POST is past _handleCommonEvent's normalization: handleMessage was
\* called with its augmented message
Normalized(r) == reqs[r].pc \in {"connect", "record"} \/ Recorded(r)

\* the rows handleMessage stored for the POST's inbound event
InboundRows(r) == {i \in DOMAIN store : store[i].by = r /\ store[i].dir = "in"}

\* C13 as claimed: whenever the event has a content_url the text handed to
\* handleMessage is a fetched body, and without one it is object_summary.
C13_OverflowPrecedence ==
    \A r \in Reqs :
        Normalized(r) =>
            IF Obj(r).content_url # <<>>
            THEN reqs[r].fetched # <<>> /\ reqs[r].text = reqs[r].fetched[1]
            ELSE reqs[r].text = Obj(r).object_summary

\* C13, amended: with a content_url that is a non-empty string the text
\* handed to handleMessage, and the text of the inbound memory it stores,
\* is the body the one fetch returned, also when that differs from
\* object_summary; with content_url missing or empty nothing is fetched and
\* both texts are object_summary.
C13_OverflowPrecedenceNonEmpty ==
    \A r \in Reqs :
        Normalized(r) =>
            /\ IF Obj(r).content_url \notin {<<>>, <<"">>}
               THEN /\ Calls(r, "fetch") = 1
                    /\ reqs[r].fetched # <<>>
                    /\ Message(r).full_object_text = reqs[r].fetched[1]
               ELSE /\ Calls(r, "fetch") = 0
                    /\ reqs[r].fetched = <<>>
                    /\ Message(r).full_object_text = Obj(r).object_summary
            /\ \A i \in InboundRows(r) :
                   store[i].text = Message(r).full_object_text

\* an overflow event stored with a fetched body that is not its summary
C13_Witness ==
    \E r \in Reqs :
        /\ reqs[r].wire = "overflowB"
        /\ reqs[r].fetched = <<Quoted>>
        /\ Obj(r).object_summary = Hi
        /\ \E i \in InboundRows(r) : store[i].text = Quoted

\* the fetch of the overflow URL came back with a response that is not ok
FetchRefused(r) == reqs[r].fetch = "notOk"

\* C14: when the fetch of the content_url returns a response that is not
\* ok, the POST is answered 400 and that fetch is the only call made for
\* it: it is not repeated, handleMessage never gets a text for the event,
\* no memory is stored and nothing is classified, generated or published.
C14_FetchFailure ==
    \A r \in Reqs :
        (Arrived(r) /\ FetchRefused(r)) =>
            /\ HasContentUrl(Obj(r))
            /\ reqs[r].pc = "done"
            /\ reqs[r].status = 400
            /\ reqs[r].calls = <<"fetch">>
            /\ reqs[r].text = <<>>
            /\ \A i \in DOMAIN store : store[i].by # r
            /\ \A i \in DOMAIN comments : comments[i].by # r

\* an overflow event refused after its one fetch while another POST's
\* memory is in the store
C14_Witness ==
    \E r \in Reqs :
        /\ FetchRefused(r)
        /\ reqs[r].status = 400
        /\ reqs[r].wire = "overflowB"
        /\ store # <<>>

-----------------------------------------------------------------------------
(* Identities                                                              *)

\* the schema-valid events that may arrive, each with a text it may carry
Events ==
    {Augment(Body(wire), text) :
        wire \in {w \in Bodies : SchemaOK(RawBody[w])},
        text \in FetchedTexts}

\* C15: the roomId under which a POST's inbound memory is stored is the
\* roomId of every event of the same community and thread, whatever that
\* event's content_type, comment_id, author or text; and its messageId
\* differs from that of every event of the same thread whose content_type
\* is the other one.
C15_IdentityStability ==
    \A r \in Reqs :
        Normalized(r) =>
            LET mine == EventMemoryIds(Message(r))
            IN  /\ \A i \in InboundRows(r) :
                       store[i].roomId = mine.roomId /\ store[i].id = mine.messageId
                /\ \A other \in Events :
                    LET theirs == EventMemoryIds(other)
                    IN  /\ (/\ other.community_id = Message(r).community_id
                            /\ other.thread_id = Message(r).thread_id) =>
                               theirs.roomId = mine.roomId
                        /\ (/\ other.thread_id = Message(r).thread_id
                            /\ other.content_type # Message(r).content_type) =>
                               theirs.messageId # mine.messageId

\* thread 7 is stored; the agent's own comment 100 in it has the same
\* roomId, and comment 7 of thread 7 another messageId
C15_Witness ==
    \E r \in Reqs :
        /\ reqs[r].wire = "thread7"
        /\ \E i \in InboundRows(r) :
            /\ store[i].roomId =
                   EventMemoryIds(Augment(Body("self100"), Hi)).roomId
            /\ store[i].id #
                   EventMemoryIds(Augment(Body("plain7"), Hi)).messageId
        /\ Body("plain7").comment_id = Body("thread7").thread_id

-----------------------------------------------------------------------------
(* handleMessage                                                           *)

\* the comments Common holds that the POST published
RepliesOf(r) == {i \in DOMAIN comments : comments[i].by = r}

\* the rows the POST added to the store
RowsOf(r) == {i \in DOMAIN store : store[i].by = r}

\* the POST went down the whole respond path: somebody else's event whose
\* text passed the mention check, classified RESPOND, answered by the
\* generator, published, and answered 200
Responded(r) ==
    /\ reqs[r].pc = "done"
    /\ reqs[r].status = 200
    /\ ~OwnEvent(r)
    /\ Includes(reqs[r].text, UserToString(commonUserId))
    /\ Calls(r, "classify") = 1
    /\ reqs[r].signal = "RESPOND"
    /\ reqs[r].resp \in {"text", "text+action"}

\* C16: a POST that went down the whole respond path made one
\* createComment call, for the event's thread, without parent_id when the
\* event's content_type is thread and with the event's comment_id as
\* parent_id when it is comment, and added two rows to the store, its
\* inbound and its outbound memory.
C16_RespondPath ==
    \A r \in Reqs :
        Responded(r) =>
            /\ Calls(r, "createComment") = 1
            /\ Cardinality(RepliesOf(r)) = 1
            /\ \A i \in RepliesOf(r) :
                /\ comments[i].thread_id = Obj(r).thread_id[1]
                /\ comments[i].parent_id =
                       IF Obj(r).content_type = "thread" THEN <<>>
                       ELSE Obj(r).comment_id
            /\ Cardinality(RowsOf(r)) = 2
            /\ \E i, j \in RowsOf(r) : store[i].dir = "in" /\ store[j].dir = "out"

\* generateMessageResponse returned nothing for the POST
NothingGenerated(r) == reqs[r].resp = "absent"

\* C17: when the generator returns nothing, createComment is never called
\* for the POST, Common holds no reply of it, and the store holds no
\* outbound memory of it: its one createMemory call is the inbound one.
C17_NothingGenerated ==
    \A r \in Reqs :
        (Arrived(r) /\ NothingGenerated(r)) =>
            /\ Calls(r, "createComment") = 0
            /\ RepliesOf(r) = {}
            /\ reqs[r].res = NoComment
            /\ Calls(r, "createMemory") = 1
            /\ \A i \in RowsOf(r) : store[i].dir = "in"
            /\ Calls(r, "processActions") = 0

\* the generator was asked once and returned nothing; the POST is over and
\* its inbound memory is in the store
C17_Witness ==
    \E r \in Reqs :
        /\ NothingGenerated(r)
        /\ reqs[r].pc = "done"
        /\ reqs[r].calls = <<"createMemory", "classify", "generate">>
        /\ \E i \in RowsOf(r) : store[i].dir = "in"

\* the calls handleMessage made for the POST, in order
NotFetch(name) == name # "fetch"
HandleCalls(r) == SelectSeq(reqs[r].calls, NotFetch)

\* the calls of handleMessage when _shouldRespond has answered false
SkipTraces == {<<"createMemory">>, <<"createMemory", "classify">>}

Decided(r) == Recorded(r) /\ reqs[r].pc \notin {"compose", "decide"}

\* _shouldRespond returned true: handleMessage went on to the generator
WentOn(r) == reqs[r].pc = "generate" \/ Calls(r, "generate") >= 1

\* C19: once _shouldRespond has returned, the classifier was called once
\* when the event is somebody else's and its text passes the mention check
\* of line 53, and not at all otherwise; handleMessage went on to generate
\* exactly when the classifier was called and answered RESPOND.
C19_DecisionShortCircuit ==
    \A r \in Reqs :
        Decided(r) =>
            LET eligible ==
                    /\ ~OwnEvent(r)
                    /\ Includes(reqs[r].text, UserToString(commonUserId))
            IN  /\ Calls(r, "classify") = IF eligible THEN 1 ELSE 0
                /\ eligible <=> reqs[r].signal \in Signals
                /\ ~eligible => reqs[r].signal = "none"
                /\ WentOn(r) <=> (eligible /\ reqs[r].signal = "RESPOND")

\* s is an initial part of t
Prefix(s, t) == Len(s) <= Len(t) /\ s = SubSeq(t, 1, Len(s))

\* the calls of handleMessage on the respond path, given what was generated
RespondTrace(response) ==
    <<"createMemory", "classify", "generate", "createComment", "createMemory">>
    \o (IF response = "text+action" THEN <<"processActions">> ELSE <<>>)
    \o <<"evaluate">>

\* the rows the POST stored for its reply
OutboundRows(r) == {i \in DOMAIN store : store[i].by = r /\ store[i].dir = "out"}

C21_SoftFailure ==
    \A r \in Reqs :
        (NothingGenerated(r) /\ reqs[r].pc = "done") =>
            /\ reqs[r].status # 500
            /\ reqs[r].status = 200

\* the header is t=<ts>,v1=<HMAC of "<ts>.<body as sent>"> under the key
\* registered for the event's community
SignedAsDocumented(r) ==
    /\ TwoSegments(r)
    /\ reqs[r].hdr.pre = <<"v", "1", "=">>
    /\ Obj(r).community_id \in DOMAIN SuppliedKeys
    /\ reqs[r].hdr.sig =
           HmacBase64(SuppliedKeys[Obj(r).community_id],
                      reqs[r].hdr.ts, reqs[r].wire)

\* this.config as CommonEnvSchema types the key map of the process
\* configuration
SuppliedConfig == [enabled |-> TRUE, keys |-> SuppliedKeys, failed |-> FALSE]

C23_CommentIdIffComment ==
    \A r \in Reqs :
        Normalized(r) =>
            (Message(r).comment_id # <<>> <=> Message(r).content_type = "comment")

\* the identifier of the message an event describes: its comment_id when
\* it has one, whatever the number, its thread_id otherwise
MessageIdentifier(message) ==
    IF message.comment_id # <<>> THEN message.comment_id[1]
    ELSE message.thread_id

\* C24: an event handed to handleMessage shares its messageId only with
\* events of the same content_type and the same message identifier.
C24_MessageIdInjective ==
    \A r \in Reqs :
        Normalized(r) =>
            \A other \in Events :
                EventMessageId(other) = EventMessageId(Message(r)) =>
                    /\ other.content_type = Message(r).content_type
                    /\ MessageIdentifier(other) = MessageIdentifier(Message(r))

\* the event Common sends about a reply the agent published: a comment of
\* the reply's community and thread, with the reply's id, by the agent
ReplyEvent(res, text) ==
    Augment([Body("thread7") EXCEPT !.community_id = res.community_id,
                                    !.thread_id = <<res.thread_id>>,
                                    !.content_type = "comment",
                                    !.comment_id = <<res.id>>,
                                    !.author_user_id = CommonUser.id], text)

\* the POST's event is about the given reply
Describes(q, res) ==
    /\ Obj(q).community_id = res.community_id
    /\ Obj(q).thread_id = <<res.thread_id>>
    /\ Obj(q).content_type = "comment"
    /\ Obj(q).comment_id = <<res.id>>
    /\ OwnEvent(q)

\* C25: the ids derived from a published reply are the ids derived from
\* the event that describes this reply, whatever its text, and their userId
\* is the agent's id; so once both the reply and such an event have been
\* recorded, the store holds one row under that messageId.
C25_ReplyAgreesWithEvent ==
    \A r \in Reqs :
        Published(r) =>
            LET ids == ReplyMemoryIds(reqs[r].res)
            IN  /\ ids.userId = agentId
                /\ \A text \in FetchedTexts :
                       EventMemoryIds(ReplyEvent(reqs[r].res, text)) = ids
                /\ \A q \in Reqs :
                    (/\ reqs[r].pc \in {"effects", "evaluate", "done"}
                     /\ Recorded(q)
                     /\ Describes(q, reqs[r].res)) =>
                        /\ EventMemoryIds(Message(q)) = ids
                        /\ Cardinality(Rows(ids.messageId)) = 1

-----------------------------------------------------------------------------
(* Configuration loading                                                   *)

\* C26: when the process configuration holds a signing key map, this.config
\* holds that map and the verifier enforces it: a schema-valid POST without
\* a signature header is answered 401 and not passed on.
C26_ConfiguredMapEnforced ==
    MapSupplied =>
        /\ config.enabled
        /\ config.keys = SuppliedKeys
        /\ \A r \in Reqs :
            (Arrived(r) /\ SchemaOK(Raw(r)) /\ reqs[r].hdr.form = "none") =>
                ~reqs[r].passed /\ reqs[r].status = 401

-----------------------------------------------------------------------------
\* The POST has been answered: one of the four statuses was sent.
Answered(r) == reqs[r].pc = "done" /\ reqs[r].status \in {200, 400, 401, 500}

\* A collaborator call made for the POST threw: the fetch of the overflow
\* URL, createComment, or a call awaited at one of the other positions.
CollaboratorThrew(r) ==
    reqs[r].fetch = "throws" \/ PublishFailed(r) \/ reqs[r].threw

\* The step sends a response for r.
Sends(r) == reqs[r].status = 0 /\ reqs'[r].status # 0

\* C28: when collaborator calls return or throw, every POST that has arrived
\* is eventually answered (again and again all POSTs that have arrived are
\* answered, and an answered POST stays answered), with exactly one of 200,
\* 400, 401 and 500: a response is sent only by the step that ends the POST,
\* and once sent nothing about the POST changes again.  A POST for which a
\* collaborator threw is answered 500, and after a 500 the next POST can
\* still arrive and is answered like any other.
C28_ExactlyOneResponse ==
    /\ []<>(\A r \in Reqs : Arrived(r) => Answered(r))
    /\ [](\A r \in Reqs :
            /\ reqs[r].status # 0 => Answered(r)
            /\ reqs[r].pc = "done" => Answered(r)
            /\ CollaboratorThrew(r) => reqs[r].status = 500
            /\ \A q \in Reqs :
                  /\ reqs[r].status = 500 /\ reqs[q].pc = "idle"
                  /\ \A p \in Reqs : p < q => reqs[p].pc # "idle"
                  => ENABLED Receive(q, LiveBodies, {GoodHeaderA}, {T0}))
    /\ [][\A r \in Reqs :
            /\ Sends(r) => reqs'[r].pc = "done"
            /\ reqs[r].status # 0 => reqs'[r] = reqs[r]]_vars

\* A POST was answered 500 because an awaited call threw after its memory
\* was stored, and another POST went through to the published reply, its
\* memory and 200.
C28_Witness ==
    /\ reqs[1].threw /\ reqs[1].status = 500 /\ Calls(1, "createMemory") = 1
    /\ reqs[2].status = 200 /\ Published(2) /\ ~reqs[2].threw
    /\ \E i \in DOMAIN store : store[i].by = 2 /\ store[i].dir = "out"

=============================================================================
